---- MODULE Spec2Model ----
(***************************************************************************)
(* A model of scribe's Buffer (src/src/buffer/buffer.rs): a gap-backed     *)
(* text store shared by a Buffer facade and its Cursor.  Text is a         *)
(* sequence of one-character strings; "\n" is the line break.              *)
(***************************************************************************)
EXTENDS Integers, Sequences, FiniteSets, TLC

\* ------------------------------------------------------------------ bounds
MaxLen == 3          \* longest content the model lets an insert produce
MaxFileLen == 2      \* longest file content from_file starts from
MaxTarget == 1       \* largest line and offset handed to move_to
MaxStoreLen == 2     \* longest content an insert produces in SpecStore

NL == "\n"
\* the characters of a file's content
Chars == {"a", NL}

BoundedSeq(S, n) == UNION {[1..k -> S] : k \in 0..n}

\* texts handed to insert: empty, one character, a line break, two lines
Texts == {<< >>, <<"a">>, <<NL>>, <<"a", NL, "b">>}

FileContents == BoundedSeq(Chars, MaxFileLen)

Paths == {"file.json", "file.xml", "file"}

None == "None"
NoOffset == -1

\* heap holds the Rc<RefCell<GapBuffer>> allocations; data_rc is Buffer.data
\* and cursor_rc is Cursor.data, each the allocation its Rc points to.
VARIABLES heap, data_rc, cursor_rc, cursor, lexer, path, last, panicked
vars == <<heap, data_rc, cursor_rc, cursor, lexer, path, last, panicked>>

\* ------------------------------------------------------- Position, Range
Position(l, o) == [line |-> l, offset |-> o]
Range(s, e) == [start |-> s, end |-> e]

Positions == {Position(l, o) : l \in 0..MaxTarget, o \in 0..MaxTarget}

\* ------------------------------------------------------------ GapBuffer
\* The store: the text before the gap and the text after it.
gap_buffer_new(s) == [pre |-> s, post |-> << >>]

to_string(gb) == gb.pre \o gb.post

\* Walks the text from its start, counting lines and columns, until the
\* position is met; NoOffset when the text ends or the line is left first.
RECURSIVE find_from(_, _, _, _, _)
find_from(t, i, line, off, pos) ==
    IF line = pos.line /\ off = pos.offset THEN i - 1
    ELSE IF i > Len(t) \/ line > pos.line THEN NoOffset
    ELSE IF t[i] = NL THEN find_from(t, i + 1, line + 1, 0, pos)
    ELSE find_from(t, i + 1, line, off + 1, pos)

find_offset(gb, pos) == find_from(to_string(gb), 1, 0, 0, pos)

\* a variant that rejects the position just past the last character of a line
in_bounds_exclusive(gb, pos) ==
    /\ find_offset(gb, pos) # NoOffset
    /\ find_offset(gb, Position(pos.line, pos.offset + 1)) # NoOffset

in_bounds(gb, pos) == find_offset(gb, pos) # NoOffset

move_gap(gb, o) ==
    LET t == to_string(gb)
    IN  [pre |-> SubSeq(t, 1, o), post |-> SubSeq(t, o + 1, Len(t))]

gb_insert(gb, text, pos) ==
    LET o == find_offset(gb, pos)
    IN  IF o = NoOffset THEN gb
        ELSE LET m == move_gap(gb, o)
             IN  [pre |-> m.pre \o text, post |-> m.post]

\* a variant that does nothing when the end of the range is out of bounds
gb_delete_no_clamp(gb, range) ==
    LET so == find_offset(gb, range.start)
        eo == find_offset(gb, range.end)
        t  == to_string(gb)
    IN  IF so = NoOffset \/ eo = NoOffset THEN gb
        ELSE [pre |-> SubSeq(t, 1, so), post |-> SubSeq(t, eo + 1, Len(t))]

\* a variant that treats a start out of bounds as the start of the text
gb_delete_unchecked_start(gb, range) ==
    LET so == find_offset(gb, range.start)
        eo == find_offset(gb, range.end)
        t  == to_string(gb)
        from == IF so = NoOffset THEN 0 ELSE so
        stop == IF eo = NoOffset THEN Len(t) ELSE eo
    IN  [pre |-> SubSeq(t, 1, from), post |-> SubSeq(t, stop + 1, Len(t))]

gb_delete(gb, range) ==
    LET so == find_offset(gb, range.start)
        eo == find_offset(gb, range.end)
        t  == to_string(gb)
    IN  IF so = NoOffset THEN gb
        ELSE LET m == move_gap(gb, so)
                 stop == IF eo = NoOffset THEN Len(t) ELSE eo
             IN  [pre |-> m.pre, post |-> SubSeq(t, stop + 1, Len(t))]

\* the length of line l as the store reports it: the largest offset in bounds
line_length(gb, l) ==
    LET offs == {o \in 0..Len(to_string(gb)) : in_bounds(gb, Position(l, o))}
    IN  IF offs = {} THEN NoOffset
        ELSE CHOOSE o \in offs : \A p \in offs : p <= o

\* ---------------------------------------------------------------- Cursor
\* Each movement returns the new position; it reads the shape of the text
\* from the store the cursor shares with the buffer.
cursor_move_to(gb, c, pos) == IF in_bounds(gb, pos) THEN pos ELSE c

cursor_move_left(gb, c) ==
    IF c.offset > 0 THEN cursor_move_to(gb, c, Position(c.line, c.offset - 1))
    ELSE c

cursor_move_right(gb, c) ==
    cursor_move_to(gb, c, Position(c.line, c.offset + 1))

\* a variant that stays put when the offset does not fit the destination line
cursor_move_vertical_no_clamp(gb, c, l) ==
    cursor_move_to(gb, c, Position(l, c.offset))

cursor_move_vertical(gb, c, l) ==
    LET n == line_length(gb, l)
    IN  IF n = NoOffset THEN c
        ELSE IF c.offset > n THEN Position(l, n)
        ELSE Position(l, c.offset)

cursor_move_up(gb, c) ==
    IF c.line = 0 THEN c ELSE cursor_move_vertical(gb, c, c.line - 1)

cursor_move_down(gb, c) == cursor_move_vertical(gb, c, c.line + 1)

cursor_move_to_start_of_line(gb, c) == Position(c.line, 0)

cursor_move_to_end_of_line(gb, c) == Position(c.line, line_length(gb, c.line))

\* ---------------------------------------------------------------- lexers
Token(lx, cat) == [lexeme |-> lx, category |-> cat]

\* tests::placeholder_lexer ignores its input
placeholder_lexer(s) == <<Token(<<"l", "e", "x", "e", "r">>, "Text")>>

CharClass(ch) == IF ch = NL THEN "Whitespace" ELSE "Text"

\* A lossless tokenizer: one token per maximal run of characters of one class.
RECURSIVE lex_runs(_, _)
lex_runs(s, acc) ==
    IF s = << >> THEN acc
    ELSE IF acc # << >> /\ acc[Len(acc)].category = CharClass(Head(s))
         THEN lex_runs(Tail(s),
                       [acc EXCEPT ![Len(acc)].lexeme = @ \o <<Head(s)>>])
         ELSE lex_runs(Tail(s), Append(acc, Token(<<Head(s)>>, CharClass(Head(s)))))

json_lex(s) == lex_runs(s, << >>)
xml_lex(s) == lex_runs(s, << >>)

apply_lexer(lx, s) ==
    CASE lx = "json" -> json_lex(s)
      [] lx = "xml" -> xml_lex(s)
      [] lx = "placeholder" -> placeholder_lexer(s)

\* type_detection::from_path: the type follows from the extension
type_from_path(p) ==
    CASE p = "file.json" -> "JSON"
      [] p = "file.xml" -> "XML"
      [] OTHER -> None

\* ------------------------------------------------------------ Rc, RefCell
\* a RefCell: its value and its borrow flag (0 free, n > 0 shared borrows,
\* -1 the exclusive borrow)
refcell_new(gb) == [value |-> gb, borrow |-> 0]

\* a variant that copies the store for the cursor
rc_clone_copy(r) == r + 1

\* Rc::clone: another pointer to the same allocation
rc_clone(r) == r

\* the store behind Buffer.data and the one behind Cursor.data
data == heap[data_rc].value
cursor_data == heap[cursor_rc].value

\* one borrow, borrow_mut or drop of a guard on a RefCell; a borrow that
\* conflicts with a guard still held panics
refcell_step(st, ev) ==
    IF st.panicked THEN st
    ELSE CASE ev = "borrow" ->
                IF st.flag < 0 THEN [st EXCEPT !.panicked = TRUE]
                ELSE [st EXCEPT !.flag = @ + 1]
           [] ev = "drop" -> [st EXCEPT !.flag = @ - 1]
           [] ev = "borrow_mut" ->
                IF st.flag # 0 THEN [st EXCEPT !.panicked = TRUE]
                ELSE [st EXCEPT !.flag = -1]
           [] ev = "drop_mut" -> [st EXCEPT !.flag = 0]

RECURSIVE run_borrows(_, _)
run_borrows(st, evs) ==
    IF evs = << >> THEN st
    ELSE run_borrows(refcell_step(st, Head(evs)), Tail(evs))

\* a call on the buffer's store: its borrows in order, and the value the
\* store holds after it unless a borrow panicked
refcell_call(evs, value) ==
    LET st == run_borrows([flag |-> heap[data_rc].borrow, panicked |-> FALSE],
                          evs)
    IN  /\ heap' = [heap EXCEPT ![data_rc] =
                      [value |-> IF st.panicked THEN @.value ELSE value,
                       borrow |-> st.flag]]
        /\ panicked' = st.panicked

\* ---------------------------------------------------------------- Buffer
buffer_data == to_string(data)

\* the borrows of the store each method takes, in order
data_borrows == <<"borrow", "drop">>
insert_borrows == <<"borrow_mut", "drop_mut">>

\* a variant that keeps the shared borrow of the bounds check until the end
delete_borrows_held == <<"borrow", "borrow_mut", "drop_mut", "drop">>

delete_borrows == <<"borrow", "drop", "borrow_mut", "drop_mut">>
tokens_borrows == data_borrows
save_borrows == data_borrows

\* a variant that always inserts at the start of the text
insert_position_start == Position(0, 0)

\* the position Buffer::insert hands to the store
insert_position == cursor

\* a variant that always jumps to the start of the next line
delete_end_line == Position(cursor.line + 1, 0)

\* a variant that never jumps to the next line
delete_end_char == Position(cursor.line, cursor.offset + 1)

\* a variant that forgets to step to the next line
delete_end_same_line ==
    LET end == Position(cursor.line, cursor.offset + 1)
    IN  IF ~in_bounds(data, end) THEN Position(end.line, 0) ELSE end

\* the end of the range Buffer::delete removes
delete_end ==
    LET end == Position(cursor.line, cursor.offset + 1)
    IN  IF ~in_bounds(data, end) THEN Position(end.line + 1, 0) ELSE end

\* a variant that removes the character to the left of the cursor
delete_range_backspace ==
    Range(Position(cursor.line, cursor.offset - 1), cursor)

delete_range == Range(cursor, delete_end)

\* a variant that returns no token for an empty buffer
tokens_skip_empty ==
    IF lexer = None
    THEN IF buffer_data = << >> THEN << >> ELSE <<Token(buffer_data, "Text")>>
    ELSE apply_lexer(lexer, buffer_data)

\* a variant that tokenizes the text up to the gap only
tokens_before_gap ==
    IF lexer = None THEN <<Token(data.pre, "Text")>>
    ELSE apply_lexer(lexer, data.pre)

\* a variant that appends a closing token to the lexer's result
tokens_with_end_marker ==
    IF lexer = None THEN <<Token(buffer_data, "Text")>>
    ELSE Append(apply_lexer(lexer, buffer_data), Token(<< >>, "Text"))

tokens ==
    IF lexer = None THEN <<Token(buffer_data, "Text")>>
    ELSE apply_lexer(lexer, buffer_data)

lexer_for(p) ==
    CASE type_from_path(p) = "JSON" -> "json"
      [] type_from_path(p) = "XML" -> "xml"
      [] OTHER -> None

\* what the last call was, with the state it started from and its result
\* (for a delete that follows an insert directly, prev keeps that insert)
NoPrev == [op |-> "none", text |-> << >>, data0 |-> << >>,
           cursor0 |-> Position(0, 0)]

Prev(op) ==
    IF op = "delete" /\ last.op = "insert"
    THEN [op |-> "insert", text |-> last.text, data0 |-> last.data0,
          cursor0 |-> last.cursor0]
    ELSE NoPrev

Call(op, text, pos, end, ret) ==
    [op |-> op, text |-> text, pos |-> pos, end |-> end, ret |-> ret,
     data0 |-> buffer_data, cursor0 |-> cursor, prev |-> Prev(op)]

NoCall == [op |-> "new", text |-> << >>, pos |-> Position(0, 0),
           end |-> Position(0, 0), ret |-> << >>,
           data0 |-> << >>, cursor0 |-> Position(0, 0), prev |-> NoPrev]

\* the store in its shared allocation, with the cursor's pointer to it
construct(contents) ==
    /\ data_rc = 1
    /\ cursor_rc = rc_clone(data_rc)
    /\ heap = [r \in {data_rc, cursor_rc} |->
                 refcell_new(gap_buffer_new(contents))]
    /\ panicked = FALSE

new ==
    /\ construct(<< >>)
    /\ cursor = Position(0, 0)
    /\ path = None
    /\ lexer = None
    /\ last = NoCall

\* a variant that leaves the cursor after the loaded text's first line
from_file_at_end(p, contents) ==
    /\ construct(contents)
    /\ cursor = Position(0, line_length(data, 0))
    /\ path = p
    /\ lexer = lexer_for(p)
    /\ last = [NoCall EXCEPT !.op = "from_file", !.text = contents]

\* the file at p opened and read in full; last.text keeps what was read
from_file(p, contents) ==
    /\ construct(contents)
    /\ cursor = Position(0, 0)
    /\ path = p
    /\ lexer = lexer_for(p)
    /\ last = [NoCall EXCEPT !.op = "from_file", !.text = contents]

Init == new \/ \E p \in Paths, d \in FileContents : from_file(p, d)

\* a variant that advances the cursor past the inserted text
insert_advancing(text) ==
    /\ ~panicked
    /\ Len(buffer_data) + Len(text) <= MaxLen
    /\ refcell_call(insert_borrows, gb_insert(data, text, insert_position))
    /\ cursor' = Position(cursor.line, cursor.offset + Len(text))
    /\ last' = Call("insert", text, insert_position, insert_position, << >>)
    /\ UNCHANGED <<data_rc, cursor_rc, lexer, path>>

insert(text) ==
    /\ ~panicked
    /\ Len(buffer_data) + Len(text) <= MaxLen
    /\ refcell_call(insert_borrows, gb_insert(data, text, insert_position))
    /\ last' = Call("insert", text, insert_position, insert_position, << >>)
    /\ UNCHANGED <<data_rc, cursor_rc, cursor, lexer, path>>

\* a variant that steps the cursor back after removing
delete_stepping_back ==
    /\ ~panicked
    /\ refcell_call(delete_borrows, gb_delete(data, delete_range))
    /\ cursor' = cursor_move_left(cursor_data, cursor)
    /\ last' = Call("delete", << >>, delete_range.start, delete_range.end, << >>)
    /\ UNCHANGED <<data_rc, cursor_rc, lexer, path>>

delete ==
    /\ ~panicked
    /\ refcell_call(delete_borrows, gb_delete(data, delete_range))
    /\ last' = Call("delete", << >>, delete_range.start, delete_range.end, << >>)
    /\ UNCHANGED <<data_rc, cursor_rc, cursor, lexer, path>>

tokens_call ==
    /\ ~panicked
    /\ refcell_call(tokens_borrows, data)
    /\ last' = Call("tokens", << >>, cursor, cursor, tokens)
    /\ UNCHANGED <<data_rc, cursor_rc, cursor, lexer, path>>

\* whether File::open_mode can succeed: the empty path of a buffer without
\* a path cannot be opened
OpenOutcomes == IF path = None THEN {FALSE} ELSE BOOLEAN

\* a variant that reports success once the file is open
save_result_ignoring_write(opened, written) ==
    IF ~opened THEN "IoError" ELSE None

\* what save returns, given whether the open and the write succeeded
save_result(opened, written) ==
    IF ~opened THEN "IoError"
    ELSE IF ~written THEN "IoError"
    ELSE None

\* (the text is read for the write only once the file is open)
save(opened, written) ==
    /\ ~panicked
    /\ refcell_call(IF opened THEN save_borrows ELSE << >>, data)
    /\ last' = Call("save", << >>, cursor, cursor,
                    [opened |-> opened, written |-> opened /\ written,
                     error |-> save_result(opened, written)])
    /\ UNCHANGED <<data_rc, cursor_rc, cursor, lexer, path>>

\* tests::tokens_returns_result_of_lexer_when_set assigns the lexer field
\* of a buffer made by new()
set_lexer ==
    /\ ~panicked
    /\ path = None
    /\ lexer = None
    /\ lexer' = "placeholder"
    /\ last' = Call("set_lexer", << >>, cursor, cursor, << >>)
    /\ UNCHANGED <<heap, data_rc, cursor_rc, cursor, path, panicked>>

Move(op, c) ==
    /\ ~panicked
    /\ cursor' = c
    /\ last' = Call(op, << >>, cursor, cursor, << >>)
    /\ UNCHANGED <<heap, data_rc, cursor_rc, lexer, path, panicked>>

move_left == Move("move_left", cursor_move_left(cursor_data, cursor))
move_right == Move("move_right", cursor_move_right(cursor_data, cursor))
move_up == Move("move_up", cursor_move_up(cursor_data, cursor))
move_down == Move("move_down", cursor_move_down(cursor_data, cursor))
move_to_start_of_line ==
    Move("move_to_start_of_line",
         cursor_move_to_start_of_line(cursor_data, cursor))
move_to_end_of_line ==
    Move("move_to_end_of_line", cursor_move_to_end_of_line(cursor_data, cursor))

move_to(pos) ==
    /\ ~panicked
    /\ cursor' = cursor_move_to(cursor_data, cursor, pos)
    /\ last' = Call("move_to", << >>, pos, pos, << >>)
    /\ UNCHANGED <<heap, data_rc, cursor_rc, lexer, path, panicked>>

Next ==
    \/ \E text \in Texts : insert(text)
    \/ delete
    \/ tokens_call
    \/ \E opened \in OpenOutcomes, written \in BOOLEAN : save(opened, written)
    \/ set_lexer
    \/ move_left
    \/ move_right
    \/ move_up
    \/ move_down
    \/ move_to_start_of_line
    \/ move_to_end_of_line
    \/ \E pos \in Positions : move_to(pos)

Spec == Init /\ [][Next]_vars

\* --------------------------------------------- the store used on its own
\* A GapBuffer and a Cursor bound to it, called with arbitrary positions and
\* ranges.  A range keeps start <= end; its end is in bounds or lies beyond
\* the end of the document.
PositionLE(a, b) == a.line < b.line \/ (a.line = b.line /\ a.offset <= b.offset)

BeyondDocumentEnd(gb, pos) ==
    /\ ~in_bounds(gb, pos)
    /\ ~in_bounds(gb, Position(pos.line + 1, 0))

Ranges(gb) ==
    {r \in {Range(a, b) : a \in Positions, b \in Positions} :
        /\ PositionLE(r.start, r.end)
        /\ in_bounds(gb, r.end) \/ BeyondDocumentEnd(gb, r.end)}

InitStore ==
    /\ \E d \in FileContents : construct(d)
    /\ cursor = Position(0, 0)
    /\ path = None
    /\ lexer = None
    /\ last = NoCall

store_insert(text, pos) ==
    /\ Len(buffer_data) + Len(text) <= MaxStoreLen
    /\ heap' = [heap EXCEPT ![data_rc].value = gb_insert(data, text, pos)]
    /\ last' = Call("store_insert", text, pos, pos, << >>)
    /\ UNCHANGED <<data_rc, cursor_rc, cursor, lexer, path, panicked>>

store_delete(range) ==
    /\ heap' = [heap EXCEPT ![data_rc].value = gb_delete(data, range)]
    /\ last' = Call("store_delete", << >>, range.start, range.end, << >>)
    /\ UNCHANGED <<data_rc, cursor_rc, cursor, lexer, path, panicked>>

NextStore ==
    \/ \E text \in Texts, pos \in Positions : store_insert(text, pos)
    \/ \E range \in Ranges(data) : store_delete(range)
    \/ \E pos \in Positions : move_to(pos)

SpecStore == InitStore /\ [][NextStore]_vars

\* ------------------------------------------------- reference definitions
\* The text as a sequence of lines, split at every line break.
RECURSIVE SplitLines(_, _, _)
SplitLines(t, done, cur) ==
    IF t = << >> THEN Append(done, cur)
    ELSE IF Head(t) = NL THEN SplitLines(Tail(t), Append(done, cur), << >>)
    ELSE SplitLines(Tail(t), done, Append(cur, Head(t)))

Lines(t) == SplitLines(t, << >>, << >>)
LineCount(t) == Len(Lines(t))
LineAt(t, l) == Lines(t)[l + 1]

ValidPosition(t, pos) ==
    /\ 0 <= pos.line /\ pos.line < LineCount(t)
    /\ 0 <= pos.offset /\ pos.offset <= Len(LineAt(t, pos.line))

RECURSIVE LineStart(_, _)
LineStart(t, l) ==
    IF l = 0 THEN 0 ELSE LineStart(t, l - 1) + Len(LineAt(t, l - 1)) + 1

LinearOffset(t, pos) == LineStart(t, pos.line) + pos.offset

Splice(t, k, text) == SubSeq(t, 1, k) \o text \o SubSeq(t, k + 1, Len(t))
Without(t, k) == SubSeq(t, 1, k) \o SubSeq(t, k + 2, Len(t))

AtEndOfLine(t, pos) == pos.offset = Len(LineAt(t, pos.line))

\* ----------------------------------------------------------------- claims
\* C1: insert(text) with the cursor at an in-bounds (l, o) yields the previous
\* data() with text spliced in at the linear offset of (l, o); on a new empty
\* buffer with the cursor at (0,0) data() is the inserted text.
C1_InsertSplicesAtCursor ==
    (last.op = "insert" /\ ValidPosition(last.data0, last.cursor0)) =>
        /\ buffer_data =
             Splice(last.data0, LinearOffset(last.data0, last.cursor0), last.text)
        /\ (last.data0 = << >> /\ last.cursor0 = Position(0, 0)) =>
             buffer_data = last.text

C1_Witness ==
    /\ last.op = "insert"
    /\ last.text # << >>
    /\ last.cursor0.line > 0
    /\ LinearOffset(last.data0, last.cursor0) < Len(last.data0)
    /\ buffer_data # last.data0

\* C2: delete() with the cursor at (l, o), o strictly less than the length of
\* line l, removes exactly the character at column o of line l: the line
\* count is unchanged and data() is the previous data() minus that character.
C2_DeleteRemovesOneCharacter ==
    (/\ last.op = "delete"
     /\ ValidPosition(last.data0, last.cursor0)
     /\ last.cursor0.offset < Len(LineAt(last.data0, last.cursor0.line))) =>
        /\ buffer_data =
             Without(last.data0, LinearOffset(last.data0, last.cursor0))
        /\ LineCount(buffer_data) = LineCount(last.data0)

C2_Witness ==
    /\ last.op = "delete"
    /\ LineCount(last.data0) > 1
    /\ last.cursor0.offset < Len(LineAt(last.data0, last.cursor0.line))
    /\ Len(buffer_data) = Len(last.data0) - 1

\* C3: delete() with the cursor at the end of line l when line l+1 exists
\* removes exactly the line break between them: one line fewer, the new line
\* l is old line l followed by old line l+1, nothing else changes.
C3_DeleteJoinsLines ==
    (/\ last.op = "delete"
     /\ ValidPosition(last.data0, last.cursor0)
     /\ AtEndOfLine(last.data0, last.cursor0)
     /\ last.cursor0.line + 1 < LineCount(last.data0)) =>
        LET l == last.cursor0.line
            old == Lines(last.data0)
            now == Lines(buffer_data)
        IN  /\ Len(now) = Len(old) - 1
            /\ now[l + 1] = old[l + 1] \o old[l + 2]
            /\ \A k \in 1..l : now[k] = old[k]
            /\ \A k \in (l + 2)..Len(now) : now[k] = old[k + 1]
            /\ buffer_data =
                 Without(last.data0, LinearOffset(last.data0, last.cursor0))

C3_Witness ==
    /\ last.op = "delete"
    /\ AtEndOfLine(last.data0, last.cursor0)
    /\ last.cursor0.offset > 0
    /\ last.cursor0.line + 1 < LineCount(last.data0)
    /\ Len(LineAt(last.data0, last.cursor0.line + 1)) > 0
    /\ LineCount(buffer_data) = LineCount(last.data0) - 1

\* C4: delete() with the cursor at the end of the last line of the document
\* leaves data() unchanged.
C4_DeleteAtDocumentEndIsNoOp ==
    (/\ last.op = "delete"
     /\ ValidPosition(last.data0, last.cursor0)
     /\ AtEndOfLine(last.data0, last.cursor0)
     /\ last.cursor0.line + 1 = LineCount(last.data0)) =>
        buffer_data = last.data0

C4_Witness ==
    /\ last.op = "delete"
    /\ last.cursor0.line = 1
    /\ last.cursor0.offset > 0
    /\ LineCount(last.data0) = 2
    /\ AtEndOfLine(last.data0, last.cursor0)
    /\ buffer_data = last.data0

\* C5: in every state reachable by insert, delete and cursor movement the
\* cursor's line indexes an existing line and its offset is at most that
\* line's character count.
C5_CursorAlwaysInBounds == ValidPosition(buffer_data, cursor)

C5_Witness ==
    /\ last.op \in {"insert", "delete"}
    /\ buffer_data # last.data0
    /\ cursor.line > 0
    /\ cursor.offset > 0
    /\ ValidPosition(buffer_data, cursor)

\* C6: insert(text) leaves cursor.position unchanged for every text, also one
\* that contains line breaks.
C6_InsertKeepsCursor == (last.op = "insert") => cursor = last.cursor0

C6_Witness ==
    /\ last.op = "insert"
    /\ \E i \in 1..Len(last.text) : last.text[i] = NL
    /\ last.cursor0.offset > 0
    /\ buffer_data # last.data0
    /\ cursor = last.cursor0

Unchanged == buffer_data = last.data0 /\ cursor = last.cursor0

RECURSIVE ConcatLexemes(_)
ConcatLexemes(ts) ==
    IF ts = << >> THEN << >> ELSE Head(ts).lexeme \o ConcatLexemes(Tail(ts))

\* C8: for a buffer with no lexer, after any sequence of inserts and deletes
\* tokens() returns exactly one token, whose lexeme equals data() and whose
\* category is Text.
C8_NoLexerOneTextToken ==
    (lexer = None) =>
        /\ Len(tokens) = 1
        /\ tokens[1].lexeme = buffer_data
        /\ tokens[1].category = "Text"
        /\ last.op = "tokens" => last.ret = <<Token(buffer_data, "Text")>>

C8_Witness ==
    /\ lexer = None
    /\ last.op = "tokens"
    /\ Len(buffer_data) > MaxFileLen
    /\ LineCount(buffer_data) > 1
    /\ last.ret = <<Token(buffer_data, "Text")>>

Lossless(lx, s) == ConcatLexemes(apply_lexer(lx, s)) = s

C10_TokensAreTheLexersResult ==
    /\ (lexer # None) => tokens = apply_lexer(lexer, buffer_data)
    /\ (lexer = "placeholder") =>
          tokens = <<Token(<<"l", "e", "x", "e", "r">>, "Text")>>
    /\ (lexer # None /\ last.op = "tokens") =>
          last.ret = apply_lexer(lexer, buffer_data)

C10_Witness ==
    /\ lexer = "xml"
    /\ last.op = "tokens"
    /\ Len(buffer_data) > MaxFileLen
    /\ Len(last.ret) > 1
    /\ last.ret = xml_lex(buffer_data)

\* positions probed against the bounds: every line and offset the text can
\* have, and one past each
ProbePositions ==
    {Position(l, o) : l \in 0..(MaxLen + 1), o \in 0..(MaxLen + 1)}

\* C11: for content with L lines, in_bounds((L, 0)) is false,
\* in_bounds((L-1, n)) is true for n the last line's character count and
\* in_bounds((L-1, n+1)) is false; in general in_bounds(pos) holds iff
\* 0 <= pos.line < L and pos.offset <= the character count of line pos.line.
C11_InBoundsIffValid ==
    LET L == LineCount(buffer_data)
        n == Len(LineAt(buffer_data, L - 1))
    IN  /\ ~in_bounds(data, Position(L, 0))
        /\ in_bounds(data, Position(L - 1, n))
        /\ ~in_bounds(data, Position(L - 1, n + 1))
        /\ \A pos \in ProbePositions :
             in_bounds(data, pos) <=> ValidPosition(buffer_data, pos)

C11_Witness ==
    /\ last.op \in {"store_insert", "store_delete"}
    /\ buffer_data # last.data0
    /\ LineCount(buffer_data) = 2
    /\ Len(LineAt(buffer_data, 0)) = 1
    /\ Len(LineAt(buffer_data, 1)) = 0
    /\ ~in_bounds(data, Position(2, 0))
    /\ in_bounds(data, Position(1, 0))
    /\ in_bounds(data, Position(0, 1))
    /\ ~in_bounds(data, Position(0, 2))
    /\ ~in_bounds(data, Position(1, 1))

\* C12: new() yields empty data(), no path and no lexer with the cursor at
\* (0,0); from_file(path) on success yields data() equal to the file's
\* contents with the cursor at (0,0).
C12_ConstructedAtOrigin ==
    /\ (last.op = "new") =>
          /\ buffer_data = << >>
          /\ path = None
          /\ lexer = None
          /\ cursor = Position(0, 0)
    /\ (last.op = "from_file") =>
          /\ buffer_data = last.text
          /\ path \in Paths
          /\ cursor = Position(0, 0)

C12_Witness ==
    /\ last.op = "from_file"
    /\ path = "file.xml"
    /\ buffer_data = last.text
    /\ Len(buffer_data) = MaxFileLen
    /\ Len(LineAt(buffer_data, 0)) > 0
    /\ cursor = Position(0, 0)

\* C14: the store's delete(range) with range.start in bounds and range.end
\* beyond the document end removes every character from range.start through
\* the end of the content.
C14_DeleteClampsEndToDocumentEnd ==
    (/\ last.op = "store_delete"
     /\ ValidPosition(last.data0, last.pos)
     /\ last.end.line >= LineCount(last.data0)
          \/ (/\ last.end.line = LineCount(last.data0) - 1
              /\ last.end.offset > Len(LineAt(last.data0, last.end.line)))) =>
        /\ Len(buffer_data) = LinearOffset(last.data0, last.pos)
        /\ \A i \in 1..Len(buffer_data) : buffer_data[i] = last.data0[i]

C14_Witness ==
    /\ last.op = "store_delete"
    /\ ValidPosition(last.data0, last.pos)
    /\ last.end.line >= LineCount(last.data0)
    /\ LinearOffset(last.data0, last.pos) > 0
    /\ Len(buffer_data) < Len(last.data0)

Min(a, b) == IF a <= b THEN a ELSE b

\* C15: move_up / move_down from (l, o) to an existing destination line d set
\* the cursor to (d, min(o, character count of line d)); the result is in
\* bounds.
C15_VerticalMoveClampsOffset ==
    LET d == IF last.op = "move_up" THEN last.cursor0.line - 1
             ELSE last.cursor0.line + 1
    IN  (/\ last.op \in {"move_up", "move_down"}
         /\ 0 <= d /\ d < LineCount(last.data0)) =>
            /\ cursor = Position(d, Min(last.cursor0.offset,
                                        Len(LineAt(last.data0, d))))
            /\ ValidPosition(buffer_data, cursor)

C15_Witness ==
    /\ last.op = "move_down"
    /\ cursor.line = last.cursor0.line + 1
    /\ cursor.offset < last.cursor0.offset
    /\ cursor.offset = Len(LineAt(buffer_data, cursor.line))

\* C18: every Range that delete() passes to the store starts at the cursor
\* (l, o), ends at (l, o+1) or (l+1, 0), and has start strictly before end.
C18_DeleteRangeIsOrdered ==
    (last.op = "delete") =>
        /\ last.pos = last.cursor0
        /\ \/ last.end = Position(last.pos.line, last.pos.offset + 1)
           \/ last.end = Position(last.pos.line + 1, 0)
        /\ PositionLE(last.pos, last.end)
        /\ last.pos # last.end

C18_Witness ==
    /\ last.op = "delete"
    /\ last.pos.offset > 0
    /\ last.end = Position(last.pos.line + 1, 0)
    /\ buffer_data # last.data0

\* C19: delete() never changes cursor.position, whether a character was
\* removed, lines were joined or nothing happened, and the cursor stays in
\* bounds for the shortened content.
C19_DeleteKeepsCursor ==
    (last.op = "delete") =>
        /\ cursor = last.cursor0
        /\ ValidPosition(buffer_data, cursor)

C19_Witness ==
    /\ last.op = "delete"
    /\ cursor = last.cursor0
    /\ cursor.offset > 0
    /\ cursor.line > 0
    /\ LineCount(buffer_data) = LineCount(last.data0) - 1

\* C16: save() returns an error whenever opening the target path or writing
\* to it fails and no error only when both succeed, and in every outcome
\* data(), cursor, path and lexer are unchanged by save().
C16_SaveSurfacesIoErrors ==
    [][(last'.op = "save") =>
          /\ (last'.ret.error = None) <=> (last'.ret.opened /\ last'.ret.written)
          /\ (last'.ret.error # None) <=> (~last'.ret.opened \/ ~last'.ret.written)
          /\ buffer_data' = buffer_data
          /\ UNCHANGED <<heap, data_rc, cursor_rc, cursor, path, lexer>>]_vars

C16_Witness ==
    /\ last.op = "save"
    /\ last.ret.opened
    /\ ~last.ret.written
    /\ last.ret.error # None
    /\ path # None
    /\ Len(buffer_data) > MaxFileLen

\* C17: from any reachable state with the cursor in bounds, for every
\* one-character text c (the line break included), insert(c) immediately
\* followed by delete() restores data() to its value before the insert and
\* leaves cursor.position unchanged.
C17_InsertThenDeleteRestores ==
    (/\ last.op = "delete"
     /\ last.prev.op = "insert"
     /\ Len(last.prev.text) = 1
     /\ ValidPosition(last.prev.data0, last.prev.cursor0)) =>
        /\ buffer_data = last.prev.data0
        /\ cursor = last.prev.cursor0

C17_Witness ==
    /\ last.op = "delete"
    /\ last.prev.op = "insert"
    /\ last.prev.text = <<NL>>
    /\ last.prev.cursor0.offset > 0
    /\ LinearOffset(last.prev.data0, last.prev.cursor0) < Len(last.prev.data0)
    /\ buffer_data = last.prev.data0
    /\ last.data0 # buffer_data

\* C13: the cursor and the buffer reference the same store in every reachable
\* state: the content cursor movement uses for its bounds is the buffer's
\* current data(), so an edit is reflected by the very next cursor movement
\* (after an insert of two lines into an empty buffer, move_down reaches
\* line 1).
C13_CursorSharesStore ==
    /\ cursor_rc = data_rc
    /\ to_string(cursor_data) = buffer_data
    /\ (last.op = "move_down") =>
          cursor.line = IF last.cursor0.line + 1 < LineCount(last.data0)
                        THEN last.cursor0.line + 1
                        ELSE last.cursor0.line

C13_Witness ==
    /\ last.op = "move_down"
    /\ path = None
    /\ buffer_data = <<"a", NL, "b">>
    /\ last.cursor0.line = 0
    /\ cursor.line = 1

\* C20: no Buffer operation takes the exclusive borrow of the shared store
\* while another borrow of it is held: in delete() the shared borrow of the
\* bounds check is released before the mutable borrow is taken, insert()
\* takes a single mutable borrow, and no sequence of insert, delete, data and
\* tokens calls reaches a borrow-conflict panic.
C20_NoBorrowConflict ==
    /\ ~panicked
    /\ \A r \in DOMAIN heap : heap[r].borrow = 0
    /\ ~run_borrows([flag |-> 0, panicked |-> FALSE], delete_borrows).panicked
    /\ ~run_borrows([flag |-> 0, panicked |-> FALSE], insert_borrows).panicked

C20_Witness ==
    /\ last.op = "delete"
    /\ last.prev.op = "insert"
    /\ Len(buffer_data) < Len(last.data0)
    /\ ~panicked
    /\ heap[data_rc].borrow = 0

====
